---- MODULE Spec2Model ----
(***************************************************************************)
(* Model of the telephony <-> voice-agent relay of src/main.py: one call   *)
(* session (twilio_handler) with its three tasks (sts_sender, sts_receiver,*)
(* twilio_receiver), the function-call dispatcher and the process-wide     *)
(* STOP_EVENT.  A step of a task is the code between two awaits.           *)
(***************************************************************************)
EXTENDS Naturals, Integers, Sequences, FiniteSets, TLC

(* ---------------------------------------------------------------------- *)
(* Bounds of the model                                                     *)
(* ---------------------------------------------------------------------- *)
\* frame size of live audio, 20 * 160 bytes in the source, scaled down
BUFFER_SIZE == 2
\* farewell frame size, 160 bytes in the source, scaled by the same factor
FRAME_BYTES == 1
\* number of messages the two sockets deliver in one session
MaxMsgs == 3
\* number of FunctionCallRequest messages among them
MaxRequests == 1
\* length of the WAV header try_send_goodbye skips, 44 bytes in the source,
\* scaled down
HEADER_BYTES == 2
\* largest `count` and `horizon_days` a calendar function is called with
MaxCount == 2
MaxHorizonDays == 2
\* day iterations of the alternatives search the model follows
MaxSearchDays == 9

(* ---------------------------------------------------------------------- *)
(* Python values                                                           *)
(* ---------------------------------------------------------------------- *)
\* Python None, and a key that a dict does not hold
None == "<None>"
Absent == "<absent>"

\* dict.get(key) and dict.get(key, default) on a field that may be absent
DictGet(v, default) == IF v = Absent THEN default ELSE v

\* str(x) inside an f-string
Str(x) == IF x = None THEN "None" ELSE x

RECURSIVE Concat(_)
Concat(ss) == IF ss = <<>> THEN <<>> ELSE Head(ss) \o Concat(Tail(ss))

(* ---------------------------------------------------------------------- *)
(* Frame codec: base64 as the standard library computes it.  A base64 text *)
(* is a sequence of alphabet indices 0..63, PAD for '=', and NonAlpha for  *)
(* a character outside the alphabet.                                       *)
(* ---------------------------------------------------------------------- *)
PAD == 64
NonAlpha == 65

RECURSIVE b64encode(_)
b64encode(bytes) ==
    IF Len(bytes) = 0 THEN <<>>
    ELSE IF Len(bytes) = 1 THEN
        << bytes[1] \div 4, (bytes[1] % 4) * 16, PAD, PAD >>
    ELSE IF Len(bytes) = 2 THEN
        << bytes[1] \div 4, (bytes[1] % 4) * 16 + bytes[2] \div 16,
           (bytes[2] % 16) * 4, PAD >>
    ELSE
        << bytes[1] \div 4, (bytes[1] % 4) * 16 + bytes[2] \div 16,
           (bytes[2] % 16) * 4 + bytes[3] \div 64, bytes[3] % 64 >>
        \o b64encode(SubSeq(bytes, 4, Len(bytes)))

\* binascii.a2b_base64 in its default (non-strict) mode: characters outside
\* the alphabet are discarded, decoding stops at sufficient padding, and a
\* text that ends inside a quad raises binascii.Error (ok = FALSE).
RECURSIVE a2b_base64(_, _, _, _, _)
a2b_base64(s, quad_pos, leftchar, pads, out) ==
    IF s = <<>> THEN [ok |-> quad_pos = 0, bytes |-> out]
    ELSE LET ch == Head(s) IN
      IF ch = PAD THEN
          IF quad_pos >= 2 /\ quad_pos + pads + 1 >= 4
          THEN [ok |-> TRUE, bytes |-> out]
          ELSE a2b_base64(Tail(s), quad_pos, leftchar,
                          IF quad_pos >= 2 THEN pads + 1 ELSE pads, out)
      ELSE IF ch >= 64 THEN a2b_base64(Tail(s), quad_pos, leftchar, pads, out)
      ELSE IF quad_pos = 0 THEN a2b_base64(Tail(s), 1, ch, 0, out)
      ELSE IF quad_pos = 1 THEN
          a2b_base64(Tail(s), 2, ch % 16, 0,
                     Append(out, leftchar * 4 + ch \div 16))
      ELSE IF quad_pos = 2 THEN
          a2b_base64(Tail(s), 3, ch % 4, 0,
                     Append(out, leftchar * 16 + ch \div 4))
      ELSE a2b_base64(Tail(s), 0, 0, 0, Append(out, leftchar * 64 + ch))

b64decode(text) == a2b_base64(text, 0, 0, 0, <<>>)

(* ---------------------------------------------------------------------- *)
(* JSON.  A JSON object is a sequence of <<key, value text>> pairs; a text *)
(* that json.loads rejects is NotJson.                                     *)
(* ---------------------------------------------------------------------- *)
Quote(s) == "\"" \o s \o "\""

RECURSIVE DumpPairs(_)
DumpPairs(pairs) ==
    IF pairs = <<>> THEN ""
    ELSE Quote(pairs[1][1]) \o ": " \o pairs[1][2]
         \o (IF Len(pairs) > 1 THEN ", " ELSE "") \o DumpPairs(Tail(pairs))

\* json.dumps of a dict of scalars
json_dumps(pairs) == "{" \o DumpPairs(pairs) \o "}"

Keys(pairs) == {pairs[i][1] : i \in 1..Len(pairs)}

\* the argument texts the agent sends, and what json.loads makes of them
ArgsEmpty == "{}"
ArgsPracticeArea == "{\"practice_area\": \"family_law\"}"
ArgsArray == "[1]"
ArgsNotJson == "not json"

json_loads_arguments(text) ==
    CASE text = ArgsEmpty -> [ok |-> TRUE, dict |-> TRUE, val |-> <<>>]
      [] text = ArgsPracticeArea ->
            [ok |-> TRUE, dict |-> TRUE,
             val |-> << <<"practice_area", "family_law">> >>]
      [] text = ArgsArray -> [ok |-> TRUE, dict |-> FALSE, val |-> <<>>]
      [] OTHER -> [ok |-> FALSE, dict |-> FALSE, val |-> <<>>]

(* ---------------------------------------------------------------------- *)
(* Function registry and dispatcher                                        *)
(* ---------------------------------------------------------------------- *)
\* the registered names the model uses (both take one required argument)
FUNCTION_MAP == {"practice_area", "practice_area_attorney_name"}

Returned(result) == [raised |-> FALSE, result |-> result, exc |-> "", msg |-> ""]
Raised(exc, msg) == [raised |-> TRUE, result |-> <<>>, exc |-> exc, msg |-> msg]

\* FUNCTION_MAP[func_name](**arguments)
CallRegistered(func_name, args) ==
    IF ~args.dict
    THEN Raised("TypeError", "argument after ** must be a mapping, not list")
    ELSE IF Keys(args.val) # {"practice_area"}
    THEN Raised("TypeError",
                func_name \o "() missing 1 required positional argument: 'practice_area'")
    ELSE IF func_name = "practice_area"
    THEN Returned(<< <<"ok", "true">>,
                     <<"practice_area", Quote(args.val[1][2])>> >>)
    ELSE Returned(<< <<"ok", "true">>,
                     <<"attorney_name", Quote("Rhonda Fernandez")>> >>)

execute_function_call(func_name, args) ==
    IF func_name \in FUNCTION_MAP
    THEN CallRegistered(func_name, args)
    ELSE Returned(<< <<"error", Quote("Unknown function: " \o Str(func_name))>> >>)

create_function_call_response(func_id, func_name, result) ==
    [type |-> "FunctionCallResponse", id |-> func_id, name |-> func_name,
     content |-> json_dumps(result)]

FallbackResult(msg) == << <<"error", Quote("Function call failed with: " \o msg)>> >>

\* One entry of the `functions` list: a JSON object with optional fields
\* name, id, arguments, or a JSON value that is not an object.
Entry(name, id, arguments) ==
    [obj |-> TRUE, name |-> name, id |-> id, arguments |-> arguments]
NotAnObject == [obj |-> FALSE, name |-> Absent, id |-> Absent, arguments |-> Absent]

\* the invocations the agent sends: an unregistered name, a call that
\* succeeds, a call whose arguments do not match the function, arguments
\* that are not JSON, an object without name, id and arguments, and an
\* empty arguments text
InvUnknown == Entry("unknown_fn", "x1", ArgsEmpty)
InvOk == Entry("practice_area", "x2", ArgsPracticeArea)
InvMismatch == Entry("practice_area_attorney_name", "x3", ArgsEmpty)
InvBadArgs == Entry("unknown_fn", "x4", ArgsNotJson)
InvBare == Entry(Absent, Absent, Absent)
InvEmptyArgs == Entry("unknown_fn", "x5", "")

\* One pass of the body of the for loop of handle_function_call_request up
\* to its send: the response to send, or the exception raised before it.
InvokeOne(function_call) ==
    IF ~function_call.obj
    THEN [raised |-> TRUE, exc |-> "AttributeError",
          msg |-> "'str' object has no attribute 'get'", called |-> <<>>,
          response |-> create_function_call_response("", "", <<>>)]
    ELSE
      LET func_name == DictGet(function_call.name, None)
          func_id   == DictGet(function_call.id, None)
          text      == LET t == DictGet(function_call.arguments, ArgsEmpty)
                       IN  IF t = "" \/ t = None THEN ArgsEmpty ELSE t
          arguments == json_loads_arguments(text)
          r         == execute_function_call(func_name, arguments)
      IN  IF ~arguments.ok
          THEN [raised |-> TRUE, exc |-> "JSONDecodeError",
                msg |-> "Expecting value: line 1 column 1 (char 0)",
                called |-> <<>>,
                response |-> create_function_call_response("", "", <<>>)]
          ELSE [raised |-> r.raised, exc |-> r.exc, msg |-> r.msg,
                called |-> IF func_name \in FUNCTION_MAP
                           THEN <<func_name>> ELSE <<>>,
                response |-> create_function_call_response(
                                 func_id, func_name, r.result)]

\* the fallback response of the except branch, when function_call is bound
\* to an object
Fallback(function_call, msg) ==
    create_function_call_response(DictGet(function_call.id, "unknown"),
                                  DictGet(function_call.name, "unknown"),
                                  FallbackResult(msg))

\* the fallback response when the loop never bound function_call
FallbackUnbound(msg) ==
    create_function_call_response("unknown", "unknown", FallbackResult(msg))

(* ---------------------------------------------------------------------- *)
(* Messages                                                                *)
(* ---------------------------------------------------------------------- *)
Tokens == {"SID123", "SID456"}

\* audio the telephony side sends, as base64 payloads; PayloadBad ends
\* inside a quad, so b64decode raises on it
InboundAudio == { <<77>>, <<77, 97, 110>> }
PayloadBad == <<19>>
Payloads == {b64encode(a) : a \in InboundAudio} \cup {<<>>, PayloadBad}

TwMsg(json, obj, event, sid, track, payload) ==
    [json |-> json, obj |-> obj, event |-> event, sid |-> sid,
     track |-> track, payload |-> payload]

\* what arrives on the telephony socket: a text that is not JSON, a JSON
\* value that is not an object, and the events start / media / stop / other
TwilioMsgs ==
    { TwMsg(FALSE, FALSE, "", Absent, "", <<>>),
      TwMsg(TRUE, FALSE, "", Absent, "", <<>>),
      TwMsg(TRUE, TRUE, "stop", Absent, "", <<>>),
      TwMsg(TRUE, TRUE, "connected", Absent, "", <<>>) }
    \cup { TwMsg(TRUE, TRUE, "start", t, "", <<>>) : t \in Tokens \cup {Absent} }
    \cup { TwMsg(TRUE, TRUE, "media", Absent, "inbound", p) : p \in Payloads }
    \cup { TwMsg(TRUE, TRUE, "media", Absent, "outbound", b64encode(<<77>>)) }

\* audio the agent sends as binary messages
AgentAudio == { <<77>>, <<77, 97>> }

\* the value of the `functions` key: absent, null, or a list of entries
FnAbsent == [shape |-> "absent", items |-> <<>>]
FnNull == [shape |-> "null", items |-> <<>>]
FnList(items) == [shape |-> "list", items |-> items]

FunctionsValues ==
    { FnAbsent, FnNull, FnList(<<>>),
      FnList(<<InvUnknown>>), FnList(<<InvOk>>), FnList(<<InvMismatch>>),
      FnList(<<InvBadArgs>>), FnList(<<InvBare>>), FnList(<<NotAnObject>>),
      FnList(<<InvEmptyArgs>>),
      FnList(<<InvOk, InvUnknown>>), FnList(<<InvMismatch, InvUnknown>>),
      FnList(<<InvOk, InvMismatch>>), FnList(<<InvOk, NotAnObject>>) }

StsMsg(kind, data, json, obj, type, functions) ==
    [kind |-> kind, data |-> data, json |-> json, obj |-> obj,
     type |-> type, functions |-> functions]

\* what arrives on the agent socket: binary audio, a text that is not JSON,
\* a JSON value that is not an object, and objects tagged by `type`
StsMsgs ==
    { StsMsg("bin", a, FALSE, FALSE, "", FnAbsent) : a \in AgentAudio }
    \cup { StsMsg("text", <<>>, FALSE, FALSE, "", FnAbsent),
           StsMsg("text", <<>>, TRUE, FALSE, "", FnAbsent),
           StsMsg("text", <<>>, TRUE, TRUE, "UserStartedSpeaking", FnAbsent),
           StsMsg("text", <<>>, TRUE, TRUE, "ConversationText", FnAbsent) }
    \cup { StsMsg("text", <<>>, TRUE, TRUE, "FunctionCallRequest", f) :
              f \in FunctionsValues }

\* events written to the telephony socket; "close" records the call of
\* twilio_ws.close() in the same log, and `by` the function that wrote
Media(sid, payload, by) ==
    [event |-> "media", streamSid |-> sid, payload |-> payload, name |-> "",
     by |-> by]
Clear(sid) ==
    [event |-> "clear", streamSid |-> sid, payload |-> <<>>, name |-> "",
     by |-> "sts_receiver"]
Mark(sid) ==
    [event |-> "mark", streamSid |-> sid, payload |-> <<>>,
     name |-> "server_goodbye_done", by |-> "try_send_goodbye"]
Close ==
    [event |-> "close", streamSid |-> "", payload |-> <<>>, name |-> "",
     by |-> "twilio_handler"]

\* messages written to the agent socket, as its log keeps them: the kind of
\* each and the bytes of an audio frame; the body of a FunctionCallResponse
\* is kept in resp
ConfigMsg == [kind |-> "config", data |-> <<>>]
BinMsg(d) == [kind |-> "bin", data |-> d]
TextMsg   == [kind |-> "text", data |-> <<>>]

\* the audio of the farewell asset (raw mu-law bytes)
GoodbyeData == <<1, 2, 3>>

\* The file GOODBYE_ULAW_PATH names, as open() and read() find it: whether
\* its name ends in .wav, whether it can be read, and its bytes.  NoFile is
\* the file before try_send_goodbye has opened it.
File(wav, ok, bytes) == [read |-> TRUE, wav |-> wav, ok |-> ok, bytes |-> bytes]
NoFile == [read |-> FALSE, wav |-> FALSE, ok |-> FALSE, bytes |-> <<>>]
AssetFiles ==
    { File(FALSE, TRUE, GoodbyeData),
      File(TRUE, TRUE, <<82, 73>> \o GoodbyeData),
      File(TRUE, TRUE, <<82>>),
      File(FALSE, TRUE, <<>>),
      File(FALSE, FALSE, <<>>) }

\* the header skip of try_send_goodbye that forgets the length test
goodbye_data_unguarded(f) ==
    IF f.wav THEN SubSeq(f.bytes, HEADER_BYTES + 1, Len(f.bytes)) ELSE f.bytes

\* data of try_send_goodbye after the header skip:
\* if path.lower().endswith(".wav") and len(data) > 44: data = data[44:]
goodbye_data(f) ==
    IF f.wav /\ Len(f.bytes) > HEADER_BYTES
    THEN SubSeq(f.bytes, HEADER_BYTES + 1, Len(f.bytes))
    ELSE f.bytes

Tasks == {"sender", "receiver", "ingest"}

\* values of the WS_PATH setting, and the paths clients request
WsPaths == {"/twilio", "/"}
Paths == {"/", "/twilio", "/other"}

\* the exception of websockets for a read or write on a closed connection
\* (ConnectionClosedOK and ConnectionClosedError)
ConnectionClosed == "ConnectionClosed"

(* ---------------------------------------------------------------------- *)
(* State                                                                   *)
(* ---------------------------------------------------------------------- *)
VARIABLES
    WS_PATH,          \* the path that is upgraded to the telephony socket
    req_path,         \* path of the HTTP request that opened the connection
    http_response,    \* what process_request returned for it
    hpc,              \* position of the connection and of twilio_handler
    pending,          \* exception that leaves the body of twilio_handler
    hresult,          \* how twilio_handler ended: "", "returned" or "raised"
    stop_read,        \* STOP_EVENT.is_set() as the finally block read it
    gb_sid, gb_i,     \* try_send_goodbye: its streamsid and frame index
    gb_file,          \* try_send_goodbye: the asset file as it was read
    STOP_EVENT,       \* the process-wide shutdown flag
    GOODBYE_ULAW_PATH,\* TRUE iff a farewell asset is configured
    task,             \* status of each of the three tasks
    task_exc,         \* the exception a task ended with
    twilio_open,      \* telephony socket accepts reads and writes
    twilio_peer_closed, \* history: the telephony peer closed the socket
    sts_open,         \* agent socket accepts reads and writes
    twilio_out,       \* events written to the telephony socket
    sts_out,          \* messages written to the agent socket
    inbuffer,         \* twilio_receiver: byte accumulator
    inbytes,          \* history: inbound audio bytes in arrival order
    enqueued,         \* history: frames put on audio_queue
    start_sids,       \* history: tokens of the start events received
    audio_queue,      \* frames from twilio_receiver to sts_sender
    streamsid_queue,  \* stream tokens from twilio_receiver to sts_receiver
    n_msgs,           \* history: messages delivered by the two sockets
    rpc,              \* position of sts_receiver
    streamsid,        \* sts_receiver: its stream token
    sts_in,           \* history: agent messages sts_receiver relayed
    n_req,            \* history: FunctionCallRequest messages delivered
    functions,        \* dispatcher: the list being iterated
    fc_i,             \* dispatcher: entries fully processed
    resp,             \* history: responses sent for the current request
    fn_calls,         \* history: <<entry index, registry function invoked>>
    disp,             \* history: outcome of the current dispatch
    sessions,         \* two concurrent sessions: locals and logs of each
    queues,           \* two concurrent sessions: the queue objects
    cal               \* one call of a calendar availability function

qvars == <<req_path, http_response>>
hvars == <<hpc, pending, hresult, stop_read, gb_sid, gb_i, gb_file, qvars>>
svars == <<sessions, queues, cal>>
gvars == <<STOP_EVENT, GOODBYE_ULAW_PATH, WS_PATH, svars>>
kvars == <<task, task_exc>>
sockvars == <<twilio_open, twilio_peer_closed, sts_open>>
ivars == <<inbuffer, inbytes, enqueued, start_sids>>
rvars == <<rpc, streamsid, sts_in, n_req>>
dvars == <<functions, fc_i, resp, fn_calls, disp>>
vars == <<hvars, gvars, kvars, sockvars, twilio_out, sts_out, ivars,
          audio_queue, streamsid_queue, n_msgs, rvars, dvars>>

\* two calls of twilio_handler that run concurrently
Sessions == {1, 2}

\* the local variables of the tasks of one session, with the logs of its
\* two sockets
NewSession ==
    [inbuffer |-> <<>>, rpc |-> "wait_token", streamsid |-> "",
     twilio_out |-> <<>>, sts_out |-> <<>>,
     inbytes |-> <<>>, start_sids |-> <<>>, sts_in |-> <<>>, n_msgs |-> 0]

\* audio_queue = asyncio.Queue(); streamsid_queue = asyncio.Queue()
NewQueues == [audio_queue |-> <<>>, streamsid_queue |-> <<>>]

\* no calendar function has been called
NoCall ==
    [fn |-> "", pc |-> "idle", ok |-> TRUE, now_utc |-> 0, calendar |-> <<>>,
     busy_utc |-> <<>>, slot_minutes |-> 0, count |-> 0, horizon_utc |-> 0,
     first_day |-> 0, cur_day |-> 0, slots |-> <<>>, start_utc |-> 0,
     start_off |-> 0, available |-> FALSE, reason |-> "", iter |-> 0]

\* a receiver that enters its loop without waiting for the token
sts_receiver_start_ungated == "loop"

\* sts_receiver starts at `streamsid = await streamsid_queue.get()`, before
\* its async for
sts_receiver_start == "wait_token"

Init ==
    /\ WS_PATH \in WsPaths
    /\ req_path = "" /\ http_response = ""
    /\ hpc = "request" /\ pending = "" /\ hresult = ""
    /\ stop_read = FALSE /\ gb_sid = "" /\ gb_i = 0 /\ gb_file = NoFile
    /\ STOP_EVENT = FALSE
    /\ GOODBYE_ULAW_PATH \in BOOLEAN
    /\ task = [t \in Tasks |-> "none"]
    /\ task_exc = [t \in Tasks |-> ""]
    /\ twilio_open = TRUE /\ twilio_peer_closed = FALSE /\ sts_open = FALSE
    /\ twilio_out = <<>> /\ sts_out = <<>>
    /\ inbuffer = <<>> /\ inbytes = <<>> /\ enqueued = <<>>
    /\ start_sids = <<>>
    /\ audio_queue = <<>> /\ streamsid_queue = <<>>
    /\ n_msgs = 0
    /\ rpc = sts_receiver_start /\ streamsid = "" /\ sts_in = <<>> /\ n_req = 0
    /\ functions = FnAbsent /\ fc_i = 0 /\ resp = <<>> /\ fn_calls = <<>>
    /\ disp = "none"
    /\ sessions = [s \in Sessions |-> NewSession]
    /\ queues = [q \in Sessions |-> NewQueues]
    /\ cal = NoCall

(* ---------------------------------------------------------------------- *)
(* Tasks                                                                   *)
(* ---------------------------------------------------------------------- *)
Running(t) == task[t] = "run"
Done(t) == task[t] \in {"ok", "exc", "cancelled"}

\* a task returns (st = "ok") or raises e (st = "exc")
TaskEnds(t, st, e) ==
    /\ task' = [task EXCEPT ![t] = st]
    /\ task_exc' = [task_exc EXCEPT ![t] = e]

\* the except clauses of a task, for an exception e raised inside its try:
\* a connection-closed error is logged and the task returns, anything else
\* is the outcome of the task
TaskRaises(t, e) ==
    IF e = ConnectionClosed THEN TaskEnds(t, "ok", "") ELSE TaskEnds(t, "exc", e)

\* chunk = inbuffer[:BUFFER_SIZE]
TakeChunk(buf) == SubSeq(buf, 1, BUFFER_SIZE)

\* a deletion that starts one byte late
DropChunk_late(buf) == SubSeq(buf, BUFFER_SIZE + 2, Len(buf))

\* del inbuffer[:BUFFER_SIZE]
DropChunk(buf) == SubSeq(buf, BUFFER_SIZE + 1, Len(buf))

\* the while loop of twilio_receiver: the frames it enqueues
RECURSIVE SlicedFrames(_)
SlicedFrames(buf) ==
    IF Len(buf) >= BUFFER_SIZE
    THEN <<TakeChunk(buf)>> \o SlicedFrames(DropChunk(buf))
    ELSE <<>>

\* an `if` in place of the `while`: one frame at most is cut off
SlicedRest_once(buf) == IF Len(buf) >= BUFFER_SIZE THEN DropChunk(buf) ELSE buf

\* the while loop of twilio_receiver: what it leaves in inbuffer
RECURSIVE SlicedRest(_)
SlicedRest(buf) ==
    IF Len(buf) >= BUFFER_SIZE THEN SlicedRest(DropChunk(buf)) ELSE buf

\* bool(streamsid) of a start event
Truthy(sid) == sid # Absent /\ sid # None /\ sid # ""

\* a test that accepts the payload of any track
IsInboundMedia_anytrack(m) == m.event = "media" /\ m.payload # <<>>

\* media.get("track") == "inbound" and media.get("payload")
IsInboundMedia(m) ==
    m.event = "media" /\ m.track = "inbound" /\ m.payload # <<>>

\* the audio the telephony side encoded into an inbound media payload
AudioOf(m) ==
    IF IsInboundMedia(m) /\ \E a \in InboundAudio : b64encode(a) = m.payload
    THEN CHOOSE a \in InboundAudio : b64encode(a) = m.payload
    ELSE <<>>

\* a loop that goes on after a stop event
twilio_receiver_stop_ignored == "run"

\* elif event == "stop": break -- the loop is left and the task returns
twilio_receiver_stop == "ok"

\* twilio_receiver (Media Ingest): one iteration of its async for
twilio_receiver(m) ==
    /\ Running("ingest") /\ twilio_open /\ n_msgs < MaxMsgs
    /\ n_msgs' = n_msgs + 1
    /\ UNCHANGED <<hvars, gvars, sockvars, twilio_out, sts_out, rvars, dvars>>
    /\ IF ~m.json
       THEN UNCHANGED <<kvars, ivars, audio_queue, streamsid_queue>>
       ELSE IF ~m.obj
       THEN /\ TaskRaises("ingest", "AttributeError")
            /\ UNCHANGED <<ivars, audio_queue, streamsid_queue>>
       ELSE IF m.event = "stop"
       THEN /\ TaskEnds("ingest", twilio_receiver_stop, "")
            /\ UNCHANGED <<ivars, audio_queue, streamsid_queue>>
       ELSE IF IsInboundMedia(m) /\ ~b64decode(m.payload).ok
       THEN /\ TaskRaises("ingest", "binascii.Error")
            /\ UNCHANGED <<ivars, audio_queue, streamsid_queue>>
       ELSE
         LET decoded == IF IsInboundMedia(m)
                        THEN b64decode(m.payload).bytes ELSE <<>>
             buf == inbuffer \o decoded
             put == m.event = "start" /\ Truthy(m.sid)
         IN  /\ streamsid_queue' = IF put THEN Append(streamsid_queue, m.sid)
                                   ELSE streamsid_queue
             /\ start_sids' = IF put THEN Append(start_sids, m.sid)
                              ELSE start_sids
             /\ inbytes' = inbytes \o AudioOf(m)
             /\ audio_queue' = audio_queue \o SlicedFrames(buf)
             /\ enqueued' = enqueued \o SlicedFrames(buf)
             /\ inbuffer' = SlicedRest(buf)
             /\ UNCHANGED kvars

\* twilio_receiver: the async for ends, or raises the connection-closed
\* error the task catches, once the telephony socket is closed
twilio_receiver_closed ==
    /\ Running("ingest") /\ ~twilio_open
    /\ TaskRaises("ingest", ConnectionClosed)
    /\ UNCHANGED <<hvars, gvars, sockvars, twilio_out, sts_out, ivars,
                   audio_queue, streamsid_queue, n_msgs, rvars, dvars>>

\* a queue that hands out its newest item first
audio_queue_get_lifo(q) ==
    [item |-> q[Len(q)], rest |-> SubSeq(q, 1, Len(q) - 1)]

\* chunk = await audio_queue.get(): the item taken and the queue left
audio_queue_get(q) == [item |-> Head(q), rest |-> Tail(q)]

\* sts_sender (Outbound Sender): one iteration of its loop
sts_sender ==
    /\ Running("sender") /\ audio_queue # <<>>
    /\ audio_queue' = audio_queue_get(audio_queue).rest
    /\ IF sts_open
       THEN /\ sts_out' = Append(sts_out,
                                 BinMsg(audio_queue_get(audio_queue).item))
            /\ UNCHANGED kvars
       ELSE /\ TaskRaises("sender", ConnectionClosed)
            /\ UNCHANGED sts_out
    /\ UNCHANGED <<hvars, gvars, sockvars, twilio_out, ivars,
                   streamsid_queue, n_msgs, rvars, dvars>>

\* sts_receiver: streamsid = await streamsid_queue.get()
sts_receiver_get_streamsid ==
    /\ Running("receiver") /\ rpc = "wait_token" /\ streamsid_queue # <<>>
    /\ streamsid' = Head(streamsid_queue)
    /\ streamsid_queue' = Tail(streamsid_queue)
    /\ rpc' = "loop"
    /\ UNCHANGED <<hvars, gvars, kvars, sockvars, twilio_out, sts_out, ivars,
                   audio_queue, n_msgs, sts_in, n_req, dvars>>

\* await twilio_ws.send(...) inside sts_receiver: the event is written, or
\* the closed socket raises and the task catches it and returns
ReceiverSends(ev) ==
    IF twilio_open
    THEN /\ twilio_out' = Append(twilio_out, ev)
         /\ UNCHANGED kvars
    ELSE /\ TaskRaises("receiver", ConnectionClosed)
         /\ UNCHANGED twilio_out

\* a barge-in handler whose type test never matches: nothing is sent
handle_barge_in_silent(sid) == UNCHANGED <<twilio_out, kvars>>

\* handle_barge_in, for a decoded message of type UserStartedSpeaking
handle_barge_in(sid) == ReceiverSends(Clear(sid))

\* an envelope whose base64 text lost its padding
media_message_unpadded(sid, message) ==
    Media(sid, SelectSeq(b64encode(message), LAMBDA c : c # PAD), "sts_receiver")

\* the media envelope sts_receiver builds for a binary message
media_message(sid, message) == Media(sid, b64encode(message), "sts_receiver")

\* a dispatcher started without being awaited: the receiver stays in its loop
handle_text_message_detached == "loop"

\* handle_text_message: `await handle_function_call_request(decoded, sts_ws)`
\* is where sts_receiver stands until the dispatcher returns
handle_text_message == "dispatch"

\* sts_receiver (Agent Event Receiver): one iteration of its async for
sts_receiver(m) ==
    /\ Running("receiver") /\ rpc = "loop" /\ sts_open /\ n_msgs < MaxMsgs
    /\ m.type = "FunctionCallRequest" => n_req < MaxRequests
    /\ n_msgs' = n_msgs + 1
    /\ n_req' = IF m.type = "FunctionCallRequest" THEN n_req + 1 ELSE n_req
    /\ UNCHANGED <<hvars, gvars, sockvars, sts_out, ivars, audio_queue,
                   streamsid_queue, streamsid>>
    /\ IF m.kind = "bin"
       THEN /\ ReceiverSends(media_message(streamsid, m.data))
            /\ sts_in' = Append(sts_in, [kind |-> "bin", data |-> m.data,
                                         sent |-> twilio_open])
            /\ UNCHANGED <<rpc, dvars>>
       ELSE IF ~m.json
       THEN UNCHANGED <<kvars, twilio_out, rpc, sts_in, dvars>>
       ELSE IF ~m.obj
       THEN /\ TaskRaises("receiver", "AttributeError")
            /\ UNCHANGED <<twilio_out, rpc, sts_in, dvars>>
       ELSE IF m.type = "UserStartedSpeaking"
       THEN /\ handle_barge_in(streamsid)
            /\ sts_in' = Append(sts_in, [kind |-> "uss", data |-> <<>>,
                                         sent |-> twilio_open])
            /\ UNCHANGED <<rpc, dvars>>
       ELSE IF m.type = "FunctionCallRequest"
       THEN /\ rpc' = handle_text_message
            /\ functions' = m.functions
            /\ fc_i' = 0 /\ resp' = <<>> /\ fn_calls' = <<>>
            /\ disp' = "running"
            /\ UNCHANGED <<kvars, twilio_out, sts_in>>
       ELSE UNCHANGED <<kvars, twilio_out, rpc, sts_in, dvars>>

\* sts_receiver: the async for ends once the agent socket is closed
sts_receiver_closed ==
    /\ Running("receiver") /\ rpc = "loop" /\ ~sts_open
    /\ TaskRaises("receiver", ConnectionClosed)
    /\ UNCHANGED <<hvars, gvars, sockvars, twilio_out, sts_out, ivars,
                   audio_queue, streamsid_queue, n_msgs, rvars, dvars>>

\* the dispatcher returns to the loop of sts_receiver with outcome d
DispatchReturns(d) ==
    /\ rpc' = "resume" /\ disp' = d
    /\ UNCHANGED kvars

\* await sts_ws.send(json.dumps(response)) of the dispatcher, when it succeeds
DispatchSends(r) ==
    /\ sts_out' = Append(sts_out, TextMsg)
    /\ resp' = Append(resp, r)

\* the except branch: the fallback is sent; a closed socket is swallowed
DispatchFallback(r) ==
    IF sts_open
    THEN DispatchSends(r) /\ DispatchReturns("returned")
    ELSE UNCHANGED <<sts_out, resp>> /\ DispatchReturns("closed")

\* handle_function_call_request: the loop header, or one pass of its body
handle_function_call_request ==
    /\ Running("receiver") /\ rpc = "dispatch"
    /\ UNCHANGED <<hvars, gvars, sockvars, twilio_out, ivars, audio_queue,
                   streamsid_queue, n_msgs, streamsid, sts_in, n_req,
                   functions>>
    /\ IF functions.shape = "null"
       THEN /\ DispatchFallback(FallbackUnbound("'NoneType' object is not iterable"))
            /\ UNCHANGED <<fc_i, fn_calls>>
       ELSE IF fc_i = Len(functions.items)
       THEN /\ DispatchReturns("returned")
            /\ UNCHANGED <<sts_out, resp, fc_i, fn_calls>>
       ELSE
         LET function_call == functions.items[fc_i + 1]
             r == InvokeOne(function_call)
         IN  /\ fn_calls' = fn_calls \o
                    [j \in 1..Len(r.called) |-> <<fc_i + 1, r.called[j]>>]
             /\ IF r.raised /\ ~function_call.obj
                THEN /\ TaskRaises("receiver", "AttributeError")
                     /\ disp' = "raised"
                     /\ UNCHANGED <<sts_out, resp, fc_i, rpc>>
                ELSE IF r.raised
                THEN /\ DispatchFallback(Fallback(function_call, r.msg))
                     /\ UNCHANGED fc_i
                ELSE IF sts_open
                THEN /\ DispatchSends(r.response)
                     /\ fc_i' = fc_i + 1
                     /\ UNCHANGED <<rpc, disp, kvars>>
                ELSE /\ DispatchReturns("closed")
                     /\ UNCHANGED <<sts_out, resp, fc_i>>

\* sts_receiver: handle_text_message has returned and the async for goes on
\* to its next message; the frame of the dispatcher is gone
sts_receiver_resume ==
    /\ Running("receiver") /\ rpc = "resume"
    /\ rpc' = "loop"
    /\ functions' = FnAbsent /\ fc_i' = 0 /\ resp' = <<>> /\ fn_calls' = <<>>
    /\ disp' = "none"
    /\ UNCHANGED <<hvars, gvars, kvars, sockvars, twilio_out, sts_out, ivars,
                   audio_queue, streamsid_queue, n_msgs, streamsid, sts_in,
                   n_req>>

\* The tasks whose cancellation was requested end at their awaits: cancel()
\* has scheduled the wake-up of each, and they run one after the other
\* once twilio_handler is suspended: at a send of the farewell, or in
\* twilio_ws.close().
tasks_cancelled ==
    /\ \E t \in Tasks : task[t] = "cancelling"
    /\ hpc \in {"exit", "done"}
       \/ \E i \in DOMAIN twilio_out : twilio_out[i].by = "try_send_goodbye"
    /\ task' = [t \in Tasks |-> IF task[t] = "cancelling" THEN "cancelled"
                                 ELSE task[t]]
    /\ UNCHANGED <<hvars, gvars, task_exc, sockvars, twilio_out, sts_out,
                   ivars, audio_queue, streamsid_queue, n_msgs, rvars, dvars>>

(* ---------------------------------------------------------------------- *)
(* Request routing and session orchestrator                                *)
(* ---------------------------------------------------------------------- *)
\* a routing that lets every path but the health check be upgraded
process_request_open(path) == IF path = "/" THEN "200 OK" ELSE None

\* process_request: the HTTP response it returns, or None to let the
\* WebSocket handshake proceed
process_request(path) ==
    IF path = "/" THEN "200 OK"
    ELSE IF path # WS_PATH THEN "404 Not Found"
    ELSE None

\* serve(twilio_handler, ..., process_request=process_request): a request
\* arrives; it is answered, or upgraded and handed to twilio_handler
handshake(path) ==
    /\ hpc = "request" /\ twilio_open
    /\ req_path' = path
    /\ http_response' = process_request(path)
    /\ hpc' = IF process_request(path) = None THEN "connecting" ELSE "responded"
    /\ UNCHANGED <<pending, hresult, stop_read, gb_sid, gb_i, gb_file, gvars, kvars,
                   sockvars, twilio_out, sts_out, ivars, audio_queue,
                   streamsid_queue, n_msgs, rvars, dvars>>

\* a handler without the except clause for connection-closed errors
HandlerOutcome_uncaught(e) == IF e = "" THEN "returned" ELSE "raised"

\* a handler that catches every exception
HandlerOutcome_swallow(e) == "returned"

\* the except clauses of twilio_handler, for the exception e that leaves
\* its body ("" for none): a connection-closed error is logged and the
\* handler returns, anything else propagates
HandlerOutcome(e) ==
    IF e = "" \/ e = ConnectionClosed THEN "returned" ELSE "raised"

\* async with sts_connect() as sts_ws: the agent socket opens, or the
\* connection attempt raises out of the handler
twilio_handler_connect ==
    /\ hpc = "connecting"
    /\ \/ /\ sts_open' = TRUE /\ hpc' = "config"
          /\ UNCHANGED <<pending, hresult>>
       \/ /\ hpc' = "done" /\ pending' = "ConnectError"
          /\ hresult' = HandlerOutcome("ConnectError")
          /\ UNCHANGED sts_open
    /\ UNCHANGED <<qvars, stop_read, gb_sid, gb_i, gb_file, gvars, kvars, twilio_open,
                   twilio_peer_closed, twilio_out, sts_out, ivars,
                   audio_queue, streamsid_queue, n_msgs, rvars, dvars>>

\* a handler that starts the three tasks without sending the configuration
twilio_handler_configure_unsent ==
    /\ hpc = "config"
    /\ task' = [t \in Tasks |-> "run"]
    /\ hpc' = "active"
    /\ UNCHANGED <<qvars, pending, hresult, stop_read, gb_sid, gb_i, gb_file,
                   gvars, task_exc, sockvars, twilio_out, sts_out, ivars,
                   audio_queue, streamsid_queue, n_msgs, rvars, dvars>>

\* await sts_ws.send(json.dumps(load_config())), then the three create_task
twilio_handler_configure ==
    /\ hpc = "config"
    /\ IF sts_open
       THEN /\ sts_out' = Append(sts_out, ConfigMsg)
            /\ task' = [t \in Tasks |-> "run"]
            /\ hpc' = "active"
            /\ UNCHANGED <<pending, hresult>>
       ELSE /\ hpc' = "done" /\ pending' = ConnectionClosed
            /\ hresult' = HandlerOutcome(ConnectionClosed)
            /\ UNCHANGED <<sts_out, task>>
    /\ UNCHANGED <<qvars, stop_read, gb_sid, gb_i, gb_file, gvars, task_exc,
                   sockvars, twilio_out, ivars, audio_queue, streamsid_queue,
                   n_msgs, rvars, dvars>>

\* asyncio.wait(tasks, return_when=FIRST_EXCEPTION) returns
WaitReturns ==
    \/ \E t \in Tasks : task[t] = "exc"
    \/ \A t \in Tasks : Done(t)

\* a teardown that requests no cancellation
cancel_skipped(t) == task[t]

\* for t in tasks: if not t.done(): t.cancel()
cancel(t) == IF Done(t) THEN task[t] ELSE "cancelling"

\* a farewell whose failure leaves the finally block of twilio_handler
try_send_goodbye_except_raise == "exit"

\* except Exception of try_send_goodbye: the failure is printed, the
\* function returns and twilio_handler goes on to twilio_ws.close()
try_send_goodbye_except == "closing"

\* the wait returns; the exception of a done task is raised; the finally
\* block cancels the unfinished tasks, reads STOP_EVENT and the token, and
\* try_send_goodbye reads the asset up to its first send
twilio_handler_wait ==
    /\ hpc = "active" /\ WaitReturns
    /\ IF \E t \in Tasks : task[t] = "exc"
       THEN \E t \in Tasks : task[t] = "exc" /\ pending' = task_exc[t]
       ELSE pending' = ""
    /\ task' = [t \in Tasks |-> cancel(t)]
    /\ stop_read' = STOP_EVENT
    /\ IF STOP_EVENT /\ streamsid_queue # <<>>
       THEN /\ gb_sid' = Head(streamsid_queue)
            /\ streamsid_queue' = Tail(streamsid_queue)
            /\ IF GOODBYE_ULAW_PATH
               THEN \E f \in AssetFiles :
                        /\ gb_file' = f
                        /\ hpc' = IF f.ok THEN "goodbye"
                                  ELSE try_send_goodbye_except
               ELSE hpc' = "closing" /\ UNCHANGED gb_file
       ELSE /\ hpc' = "closing"
            /\ UNCHANGED <<gb_sid, gb_file, streamsid_queue>>
    /\ UNCHANGED <<qvars, hresult, gb_i, gvars, task_exc, sockvars, twilio_out,
                   sts_out, ivars, audio_queue, n_msgs, rvars, dvars>>

\* a slice that runs one byte into the next frame
GoodbyeFrame_wide(i) ==
    LET data == goodbye_data(gb_file)
    IN  SubSeq(data, i * FRAME_BYTES + 1,
               IF (i + 1) * FRAME_BYTES + 1 < Len(data)
               THEN (i + 1) * FRAME_BYTES + 1 ELSE Len(data))

\* frame = data[i:i+FRAME_BYTES] of try_send_goodbye
GoodbyeFrame(i) ==
    LET data == goodbye_data(gb_file)
    IN  SubSeq(data, i * FRAME_BYTES + 1,
               IF (i + 1) * FRAME_BYTES < Len(data)
               THEN (i + 1) * FRAME_BYTES ELSE Len(data))

\* try_send_goodbye after it has read the asset: one send of a frame, or the
\* send of the mark; a failed send is swallowed and ends the playout
try_send_goodbye ==
    /\ hpc = "goodbye"
    /\ IF ~twilio_open
       THEN /\ hpc' = try_send_goodbye_except /\ UNCHANGED <<twilio_out, gb_i>>
       ELSE IF gb_i * FRAME_BYTES < Len(goodbye_data(gb_file))
       THEN /\ twilio_out' =
                 Append(twilio_out, Media(gb_sid, b64encode(GoodbyeFrame(gb_i)),
                                          "try_send_goodbye"))
            /\ gb_i' = gb_i + 1
            /\ UNCHANGED hpc
       ELSE /\ twilio_out' = Append(twilio_out, Mark(gb_sid))
            /\ hpc' = "closing"
            /\ UNCHANGED gb_i
    /\ UNCHANGED <<qvars, pending, hresult, stop_read, gb_sid, gb_file, gvars, kvars,
                   sockvars, sts_out, ivars, audio_queue, streamsid_queue,
                   n_msgs, rvars, dvars>>

\* await twilio_ws.close() at the end of the finally block
twilio_handler_close ==
    /\ hpc = "closing"
    /\ twilio_out' = Append(twilio_out, Close)
    /\ twilio_open' = FALSE
    /\ hpc' = "exit"
    /\ UNCHANGED <<qvars, pending, hresult, stop_read, gb_sid, gb_i, gb_file, gvars, kvars,
                   twilio_peer_closed, sts_open, sts_out, ivars, audio_queue,
                   streamsid_queue, n_msgs, rvars, dvars>>

\* the async with block is left (the agent socket closes) and the handler
\* returns, or raises the exception of the task
twilio_handler_exit ==
    /\ hpc = "exit"
    /\ sts_open' = FALSE
    /\ hresult' = HandlerOutcome(pending)
    /\ hpc' = "done"
    /\ UNCHANGED <<qvars, pending, stop_read, gb_sid, gb_i, gb_file, gvars, kvars,
                   twilio_open, twilio_peer_closed, twilio_out, sts_out,
                   ivars, audio_queue, streamsid_queue, n_msgs, rvars, dvars>>

(* ---------------------------------------------------------------------- *)
(* Environment                                                             *)
(* ---------------------------------------------------------------------- *)
\* a signal handler that toggles the flag
stop_signal_toggle ==
    /\ STOP_EVENT' = ~STOP_EVENT
    /\ UNCHANGED <<hvars, GOODBYE_ULAW_PATH, WS_PATH, svars, kvars, sockvars,
                   twilio_out, sts_out, ivars, audio_queue, streamsid_queue,
                   n_msgs, rvars, dvars>>

\* SIGINT / SIGTERM: loop.add_signal_handler(..., STOP_EVENT.set)
stop_signal ==
    /\ STOP_EVENT' = TRUE
    /\ UNCHANGED <<hvars, GOODBYE_ULAW_PATH, WS_PATH, svars, kvars, sockvars,
                   twilio_out, sts_out, ivars, audio_queue, streamsid_queue, n_msgs,
                   rvars, dvars>>

\* main: STOP_EVENT.wait() has returned and `async with serve(...)` is left;
\* the server stops accepting requests and closes its open connections
main ==
    /\ STOP_EVENT /\ twilio_open
    /\ twilio_open' = FALSE
    /\ UNCHANGED <<hvars, gvars, kvars, twilio_peer_closed, sts_open,
                   twilio_out, sts_out, ivars, audio_queue, streamsid_queue,
                   n_msgs, rvars, dvars>>

\* the telephony peer closes its socket
twilio_peer_closes ==
    /\ twilio_open
    /\ twilio_open' = FALSE
    /\ twilio_peer_closed' = TRUE
    /\ UNCHANGED <<hvars, gvars, kvars, sts_open, twilio_out, sts_out, ivars,
                   audio_queue, streamsid_queue, n_msgs, rvars, dvars>>

\* the agent peer closes its socket
sts_peer_closes ==
    /\ sts_open
    /\ sts_open' = FALSE
    /\ UNCHANGED <<hvars, gvars, kvars, twilio_open, twilio_peer_closed,
                   twilio_out, sts_out, ivars, audio_queue, streamsid_queue,
                   n_msgs, rvars, dvars>>

(* ---------------------------------------------------------------------- *)
(* Specification                                                           *)
(* ---------------------------------------------------------------------- *)
\* steps of the three tasks that wait for nothing but the event loop
TaskProgress ==
    \/ twilio_receiver_closed
    \/ sts_sender
    \/ sts_receiver_get_streamsid
    \/ sts_receiver_closed
    \/ handle_function_call_request
    \/ sts_receiver_resume
    \/ tasks_cancelled

\* steps that consume a request or a message a peer sent
TaskReceive ==
    \/ \E path \in Paths : handshake(path)
    \/ \E m \in TwilioMsgs : twilio_receiver(m)
    \/ \E m \in StsMsgs : sts_receiver(m)

HandlerStep ==
    \/ twilio_handler_connect
    \/ twilio_handler_configure
    \/ twilio_handler_wait
    \/ try_send_goodbye
    \/ twilio_handler_close
    \/ twilio_handler_exit

EnvStep ==
    \/ stop_signal
    \/ main
    \/ twilio_peer_closes
    \/ sts_peer_closes

Next == TaskProgress \/ TaskReceive \/ HandlerStep \/ EnvStep

Spec == Init /\ [][Next]_vars

\* the event loop runs every task and the handler whenever they can step
FairSpec == Spec /\ WF_vars(TaskProgress) /\ WF_vars(HandlerStep)

(* ---------------------------------------------------------------------- *)
(* Two concurrent sessions: the tasks of each call of twilio_handler, over *)
(* the queues that call created.  What a peer sends is tagged with its      *)
(* session: the token, the audio bytes of the caller and of the agent.      *)
(* ---------------------------------------------------------------------- *)
\* queues created once for the whole process
session_queues_shared(s) == 1

\* the queue objects the tasks of session s were given: twilio_handler
\* creates both queues in its own frame and passes them to its tasks
session_queues(s) == s

SessionToken(s) == IF s = 1 THEN "SID123" ELSE "SID456"
CallerAudio(s) == <<s, s, s>>
SessionAgentAudio(s) == <<100 + s>>

\* the one-session state stays as it is
OneSessionIdle ==
    UNCHANGED <<hvars, STOP_EVENT, GOODBYE_ULAW_PATH, WS_PATH, kvars, sockvars,
                twilio_out, sts_out, ivars, audio_queue, streamsid_queue,
                n_msgs, rvars, dvars>>

\* twilio_receiver of session s: a start event with the session's token, or
\* an inbound media event
session_twilio_receiver(s, event) ==
    LET q == session_queues(s)
        decoded == IF event = "media"
                   THEN b64decode(b64encode(CallerAudio(s))).bytes ELSE <<>>
        buf == sessions[s].inbuffer \o decoded
    IN  /\ sessions[s].n_msgs < MaxMsgs
        /\ sessions' = [sessions EXCEPT
               ![s].n_msgs = @ + 1,
               ![s].inbuffer = SlicedRest(buf),
               ![s].inbytes = @ \o decoded,
               ![s].start_sids = IF event = "start"
                                 THEN Append(@, SessionToken(s)) ELSE @]
        /\ queues' = [queues EXCEPT
               ![q].audio_queue = @ \o SlicedFrames(buf),
               ![q].streamsid_queue = IF event = "start"
                                      THEN Append(@, SessionToken(s)) ELSE @]
        /\ OneSessionIdle /\ UNCHANGED cal

\* sts_sender of session s: one iteration of its loop
session_sts_sender(s) ==
    LET q == session_queues(s)
    IN  /\ queues[q].audio_queue # <<>>
        /\ queues' = [queues EXCEPT
               ![q].audio_queue = audio_queue_get(@).rest]
        /\ sessions' = [sessions EXCEPT
               ![s].sts_out = Append(@, audio_queue_get(queues[q].audio_queue).item)]
        /\ OneSessionIdle /\ UNCHANGED cal

\* sts_receiver of session s: streamsid = await streamsid_queue.get()
session_sts_receiver_get_streamsid(s) ==
    LET q == session_queues(s)
    IN  /\ sessions[s].rpc = "wait_token"
        /\ queues[q].streamsid_queue # <<>>
        /\ queues' = [queues EXCEPT ![q].streamsid_queue = Tail(@)]
        /\ sessions' = [sessions EXCEPT
               ![s].rpc = "loop",
               ![s].streamsid = Head(queues[q].streamsid_queue)]
        /\ OneSessionIdle /\ UNCHANGED cal

\* sts_receiver of session s: a binary message is relayed, or a
\* UserStartedSpeaking message is answered with clear
session_sts_receiver(s, kind) ==
    /\ sessions[s].rpc = "loop" /\ sessions[s].n_msgs < MaxMsgs
    /\ sessions' = [sessions EXCEPT
           ![s].n_msgs = @ + 1,
           ![s].sts_in = Append(@, [kind |-> kind,
                                    data |-> IF kind = "bin"
                                             THEN SessionAgentAudio(s) ELSE <<>>]),
           ![s].twilio_out =
               Append(@, IF kind = "bin"
                         THEN media_message(sessions[s].streamsid,
                                            SessionAgentAudio(s))
                         ELSE Clear(sessions[s].streamsid))]
    /\ UNCHANGED queues
    /\ OneSessionIdle /\ UNCHANGED cal

TwoSessionsInit == Init /\ WS_PATH = "/twilio" /\ GOODBYE_ULAW_PATH = FALSE

TwoSessionsNext ==
    \E s \in Sessions :
        \/ \E event \in {"start", "media"} : session_twilio_receiver(s, event)
        \/ session_sts_sender(s)
        \/ session_sts_receiver_get_streamsid(s)
        \/ \E kind \in {"bin", "uss"} : session_sts_receiver(s, kind)

TwoSessions == TwoSessionsInit /\ [][TwoSessionsNext]_vars

(* ---------------------------------------------------------------------- *)
(* Calendar availability (src/google_calendar_availability.py)             *)
(* ---------------------------------------------------------------------- *)
\* A datetime is a number of seconds since Monday 2018-02-26 00:00:00 UTC
\* and a date a number of days since that Monday; microseconds are left out.
MINUTE == 60
HOUR == 3600
DAY == 86400
At(d, h, m, sec) == d * DAY + h * HOUR + m * MINUTE + sec

\* date.weekday(): 0 is Monday
weekday(d) == d % 7

\* date.month for the dates of the model: day 3 is Thursday 2018-03-01 and
\* no date of the model lies after November
month(d) == IF d < 3 THEN 2 ELSE 3

\* datetime.date() of a clock time
date(t) == t \div DAY

\* _pt_offset_hours_for_pt_date with PT_OFFSET_HOURS unset
_pt_offset_hours_for_pt_date(d) ==
    IF 3 <= month(d) /\ month(d) <= 11 THEN 0 - 7 ELSE 0 - 8

_pt_to_utc(dt_pt_naive, off_hours) == dt_pt_naive - off_hours * HOUR

_utc_to_pt(dt_utc_aware, off_hours) == dt_utc_aware + off_hours * HOUR

\* a rounding that goes down to the slot boundary
_ceil_to_slot_floor(dt_obj, minutes) ==
    LET discard == ((dt_obj \div MINUTE) % 60) % minutes
        down == dt_obj - discard * MINUTE
    IN  down - (down % MINUTE)

\* _ceil_to_slot: dt_obj.minute % minutes is the minute of the hour
_ceil_to_slot(dt_obj, minutes) ==
    LET discard == ((dt_obj \div MINUTE) % 60) % minutes
        up == dt_obj + (minutes - discard) * MINUTE
    IN  IF discard = 0 /\ dt_obj % MINUTE = 0
        THEN dt_obj
        ELSE up - (up % MINUTE)

\* a busy interval (bs, be)
Busy(bs, be) == [s |-> bs, e |-> be]

\* any(cur < be and bs < cur + slot for (bs, be) in busy_intervals)
conflict(busy_intervals, cur, cur_end) ==
    \E i \in DOMAIN busy_intervals :
        cur < busy_intervals[i].e /\ busy_intervals[i].s < cur_end

\* the while loop of _generate_free_slots_from_busy, from cursor cur on
RECURSIVE SlotsFrom(_, _, _, _)
SlotsFrom(busy_intervals, cur, end_dt, slot_minutes) ==
    LET cur_end == cur + slot_minutes * MINUTE
    IN  IF cur_end <= end_dt
        THEN (IF conflict(busy_intervals, cur, cur_end)
              THEN <<>> ELSE << Busy(cur, cur_end) >>)
             \o SlotsFrom(busy_intervals, cur_end, end_dt, slot_minutes)
        ELSE <<>>

\* _generate_free_slots_from_busy; its list `free` is computed and not used
_generate_free_slots_from_busy(busy_intervals, start_dt, end_dt, now_dt, slot_minutes) ==
    LET cur == IF now_dt < start_dt THEN start_dt ELSE now_dt
    IN  SlotsFrom(busy_intervals, _ceil_to_slot(cur, slot_minutes), end_dt,
                  slot_minutes)

\* the busy intervals that overlap a window, cut to the window
Clipped(busy, lo, hi) ==
    LET hit == SelectSeq(busy, LAMBDA b : ~(b.e <= lo \/ b.s >= hi))
    IN  [i \in 1..Len(hit) |->
            Busy(IF hit[i].s > lo THEN hit[i].s ELSE lo,
                 IF hit[i].e < hi THEN hit[i].e ELSE hi)]

\* _freebusy_async: what the free/busy service reports of a calendar for
\* the range timeMin..timeMax, sorted by start
_freebusy_async(calendar, time_min, time_max) ==
    Clipped(calendar, time_min, time_max)

\* the current time of a call
NowValues ==
    { At(0, 18, 10, 30),    \* Monday 10:10:30 in February
      At(2, 23, 0, 0),      \* Wednesday 15:00, the day before March 1
      At(3, 2, 0, 0),       \* March 1 in UTC, the evening of February 28 in PT
      At(4, 23, 40, 0),     \* Friday 16:40 in March
      At(5, 15, 0, 0) }     \* Saturday 08:00

\* the events of the calendar, sorted by start
Calendars ==
    { <<>>,
      << Busy(At(0, 18, 30, 0), At(0, 19, 30, 0)) >>,
      << Busy(At(0, 0, 0, 0), At(40, 0, 0, 0)) >>,
      << Busy(At(0, 19, 0, 0), At(1, 1, 0, 0)),
         Busy(At(7, 16, 0, 0), At(7, 23, 0, 0)) >>,
      << Busy(At(3, 16, 0, 0), At(3, 18, 0, 0)),
         Busy(At(3, 17, 0, 0), At(3, 17, 30, 0)),
         Busy(At(4, 16, 30, 0), At(4, 23, 30, 0)) >> }

\* slot_minutes: the default, one that does not divide the hour, and one
\* longer than the business window
SlotMinutes == {30, 45, 540}

\* the slots appended to a result list that has room for `count` entries
Appended(out, day_slots, count, off) ==
    LET room == count - Len(out)
        n == IF Len(day_slots) < room THEN Len(day_slots) ELSE room
    IN  out \o [i \in 1..n |->
                   [start |-> day_slots[i].s, end |-> day_slots[i].e,
                    off |-> off]]

\* get_next_available_slots up to its while loop
get_next_available_slots(now_utc, calendar, fb_ok, slot_minutes, count, horizon_days) ==
    LET horizon_utc == now_utc + horizon_days * DAY
        off_now == _pt_offset_hours_for_pt_date(date(now_utc))
        now_pt == _utc_to_pt(now_utc, off_now)
    IN  /\ cal.pc = "idle"
        /\ cal' = IF ~fb_ok
                  THEN [NoCall EXCEPT !.fn = "get_next_available_slots",
                                      !.pc = "returned", !.ok = FALSE]
                  ELSE [NoCall EXCEPT
                          !.fn = "get_next_available_slots",
                          !.pc = "loop",
                          !.now_utc = now_utc,
                          !.calendar = calendar,
                          !.busy_utc = _freebusy_async(calendar, now_utc,
                                                       horizon_utc),
                          !.slot_minutes = slot_minutes,
                          !.count = count,
                          !.horizon_utc = horizon_utc,
                          !.first_day = date(now_pt),
                          !.cur_day = date(now_pt)]
        /\ OneSessionIdle /\ UNCHANGED <<sessions, queues>>

\* one iteration of the while loop of get_next_available_slots
get_next_available_slots_day ==
    LET d == cal.cur_day
        off == _pt_offset_hours_for_pt_date(d)
        day_start_utc == _pt_to_utc(At(d, 9, 0, 0), off)
        day_end_utc == _pt_to_utc(At(d, 17, 0, 0), off)
        day_busy == Clipped(cal.busy_utc, day_start_utc, day_end_utc)
        day_now_utc == IF d = cal.first_day THEN cal.now_utc
                       ELSE day_start_utc
        day_slots == _generate_free_slots_from_busy(
                         day_busy, day_start_utc, day_end_utc, day_now_utc,
                         cal.slot_minutes)
        slots_out == IF weekday(d) < 5
                     THEN Appended(cal.slots, day_slots, cal.count, off)
                     ELSE cal.slots
        beyond == _pt_to_utc(At(d, 23, 59, 59), off) > cal.horizon_utc
    IN  /\ cal.fn = "get_next_available_slots" /\ cal.pc = "loop"
        /\ cal' = [cal EXCEPT
                     !.slots = slots_out,
                     !.cur_day = IF beyond THEN d ELSE d + 1,
                     !.pc = IF beyond \/ Len(slots_out) >= cal.count
                            THEN "returned" ELSE "loop"]
        /\ OneSessionIdle /\ UNCHANGED <<sessions, queues>>

\* a proposed start: an ISO string that does not parse, a clock time with a
\* UTC offset, or a naive clock time
Proposal(valid, naive, local, off) ==
    [valid |-> valid, naive |-> naive, local |-> local, off |-> off]

Proposals ==
    { Proposal(FALSE, FALSE, 0, 0),
      Proposal(TRUE, FALSE, At(7, 10, 0, 0), 0 - 7),    \* Monday 10:00
      Proposal(TRUE, FALSE, At(7, 16, 45, 0), 0 - 7),   \* Monday 16:45
      Proposal(TRUE, FALSE, At(7, 17, 0, 0), 0 - 7),    \* Monday 17:00
      Proposal(TRUE, FALSE, At(7, 8, 30, 0), 0 - 7),    \* Monday 08:30
      Proposal(TRUE, FALSE, At(5, 10, 0, 0), 0 - 7),    \* Saturday 10:00
      Proposal(TRUE, FALSE, At(0, 9, 0, 0), 0 - 8),     \* the first Monday 09:00
      Proposal(TRUE, TRUE, At(7, 11, 0, 0), 0) }        \* Monday 11:00, naive

\* local_hour, local_min of the policy check
hour(t) == (t % DAY) \div HOUR
minute(t) == (t % HOUR) \div MINUTE

\* the policy checks of check_slot_and_alternatives
PolicyReason(start_utc, now_utc, local) ==
    IF start_utc < now_utc THEN "Requested time is in the past."
    ELSE IF weekday(date(local)) >= 5 THEN "Requested day is on a weekend."
    ELSE IF ~((9 <= hour(local) /\ hour(local) < 17)
              \/ (hour(local) = 17 /\ minute(local) = 0))
         THEN "Requested time is outside 9:00 AM-5:00 PM PT."
    ELSE ""

\* check_slot_and_alternatives up to its while loop
check_slot_and_alternatives(p, now_utc, calendar, fb_ok, slot_minutes, count) ==
    LET off == IF p.naive THEN _pt_offset_hours_for_pt_date(date(now_utc))
               ELSE p.off
        start_utc == p.local - off * HOUR
        end_utc == start_utc + slot_minutes * MINUTE
        reason == PolicyReason(start_utc, now_utc, p.local)
        day_start_local == date(p.local) * DAY
        day_start_utc == day_start_local - off * HOUR
        day_end_utc == day_start_local + DAY - off * HOUR
        busy_utc == _freebusy_async(calendar, day_start_utc, day_end_utc)
        failed == [NoCall EXCEPT !.fn = "check_slot_and_alternatives",
                                 !.pc = "returned", !.ok = FALSE]
        called == [NoCall EXCEPT
                     !.fn = "check_slot_and_alternatives",
                     !.now_utc = now_utc,
                     !.calendar = calendar,
                     !.busy_utc = busy_utc,
                     !.slot_minutes = slot_minutes,
                     !.count = count,
                     !.first_day = date(p.local),
                     !.cur_day = date(p.local),
                     !.start_utc = start_utc,
                     !.start_off = off]
    IN  /\ cal.pc = "idle"
        /\ cal' = IF ~p.valid \/ ~fb_ok THEN failed
                  ELSE IF reason = "" /\ ~conflict(busy_utc, start_utc, end_utc)
                  THEN [called EXCEPT !.pc = "returned", !.available = TRUE]
                  ELSE [called EXCEPT
                          !.pc = "alternatives",
                          !.reason =
                              IF reason # "" THEN reason
                              ELSE "Slot conflicts with an existing event."]
        /\ OneSessionIdle /\ UNCHANGED <<sessions, queues>>

\* one iteration of the while loop of check_slot_and_alternatives
check_slot_and_alternatives_day ==
    LET d == cal.cur_day
        off == cal.start_off
        ds_utc == At(d, 9, 0, 0) - off * HOUR
        de_utc == At(d, 17, 0, 0) - off * HOUR
        day_busy == IF d # cal.first_day
                    THEN _freebusy_async(cal.calendar, ds_utc, de_utc)
                    ELSE Clipped(cal.busy_utc, ds_utc, de_utc)
        day_now_utc == IF d = date(cal.start_utc + off * HOUR)
                       THEN cal.start_utc ELSE ds_utc
        day_slots == _generate_free_slots_from_busy(
                         day_busy, ds_utc, de_utc, day_now_utc,
                         cal.slot_minutes)
        alternatives == IF weekday(d) < 5
                        THEN Appended(cal.slots, day_slots, cal.count, off)
                        ELSE cal.slots
    IN  /\ cal.fn = "check_slot_and_alternatives" /\ cal.pc = "alternatives"
        /\ cal.iter < MaxSearchDays
        /\ cal' = [cal EXCEPT
                     !.slots = alternatives,
                     !.cur_day = d + 1,
                     !.iter = cal.iter + 1,
                     !.pc = IF Len(alternatives) >= cal.count
                            THEN "returned" ELSE "alternatives"]
        /\ OneSessionIdle /\ UNCHANGED <<sessions, queues>>

CalendarInit == Init /\ WS_PATH = "/twilio" /\ GOODBYE_ULAW_PATH = FALSE

CalendarNext ==
    \/ \E now_utc \in NowValues, calendar \in Calendars, fb_ok \in BOOLEAN,
          slot_minutes \in SlotMinutes, count \in 1..MaxCount :
          \/ \E horizon_days \in 1..MaxHorizonDays :
                 get_next_available_slots(now_utc, calendar, fb_ok,
                                          slot_minutes, count, horizon_days)
          \/ \E p \in Proposals :
                 check_slot_and_alternatives(p, now_utc, calendar, fb_ok,
                                             slot_minutes, count)
    \/ get_next_available_slots_day
    \/ check_slot_and_alternatives_day

Calendar == CalendarInit /\ [][CalendarNext]_vars

(* ---------------------------------------------------------------------- *)
(* Properties                                                              *)
(* ---------------------------------------------------------------------- *)
IsPrefix(a, b) == Len(a) <= Len(b) /\ a = SubSeq(b, 1, Len(a))

CloseInvoked == \E i \in DOMAIN twilio_out : twilio_out[i].event = "close"

\* what sts_receiver wrote to the telephony socket, and what the farewell did
RelayLog == SelectSeq(twilio_out, LAMBDA e : e.by = "sts_receiver")
GoodbyeLog == SelectSeq(twilio_out, LAMBDA e : e.by = "try_send_goodbye")

\* the frames sts_sender wrote to the agent socket
BinFrames ==
    LET b == SelectSeq(sts_out, LAMBDA x : x.kind = "bin")
    IN  [i \in 1..Len(b) |-> b[i].data]

\* the relayed agent messages whose send found the telephony socket open
SentIn == SelectSeq(sts_in, LAMBDA e : e.sent)

\* a send of sts_receiver can only have failed on a closed telephony socket,
\* and the task ended with it, so only the last message can be unsent
OnlyLastUnsent ==
    \A i \in DOMAIN sts_in :
        ~sts_in[i].sent => /\ i = Len(sts_in)
                           /\ ~twilio_open
                           /\ task["receiver"] # "run"

\* C1: once one of the three tasks of an active session has ended, normally
\* or with an error, the session eventually has close invoked on the
\* telephony socket and none of the three tasks is left running.
C1_TaskEnded ==
    hpc = "active" /\ \E t \in Tasks : task[t] \in {"ok", "exc"}
C1_SessionClosed == CloseInvoked /\ \A t \in Tasks : Done(t)
C1_SupervisionLiveness == C1_TaskEnded ~> C1_SessionClosed

\* C2: with L inbound audio bytes received so far, exactly L div BUFFER_SIZE
\* frames were enqueued, each of BUFFER_SIZE bytes, their concatenation is
\* the first BUFFER_SIZE * (L div BUFFER_SIZE) bytes of the inbound stream,
\* and the other L mod BUFFER_SIZE bytes are in the accumulator.
C2_Framing ==
    LET L == Len(inbytes)
        n == L \div BUFFER_SIZE
    IN  /\ Len(enqueued) = n
        /\ \A i \in DOMAIN enqueued : Len(enqueued[i]) = BUFFER_SIZE
        /\ Concat(enqueued) = SubSeq(inbytes, 1, BUFFER_SIZE * n)
        /\ inbuffer = SubSeq(inbytes, BUFFER_SIZE * n + 1, L)
        /\ Len(inbuffer) = L % BUFFER_SIZE

\* three media events made one frame and left a remainder; and one media
\* event completed several frames at once
C2_Witness ==
    /\ n_msgs = 3 /\ Len(enqueued) >= 1 /\ inbuffer # <<>>
    /\ Len(inbytes) > BUFFER_SIZE

\* C3: a dispatched FunctionCallRequest with N invocations (each an object
\* with id and name) got exactly N responses, the i-th with the id and name
\* of the i-th invocation.
WellFormedEntry(e) == e.obj /\ e.id # Absent /\ e.name # Absent
WellFormedRequest ==
    /\ functions.shape = "list"
    /\ \A i \in DOMAIN functions.items : WellFormedEntry(functions.items[i])
C3_ResponseCount ==
    (disp = "returned" /\ WellFormedRequest) =>
        /\ Len(resp) = Len(functions.items)
        /\ \A i \in DOMAIN functions.items :
              /\ resp[i].id = functions.items[i].id
              /\ resp[i].name = functions.items[i].name

\* C4: the events sts_receiver wrote to the telephony socket are, in order,
\* one clear per UserStartedSpeaking message and one media per binary
\* message it consumed, so each clear precedes the media of every later
\* binary message; each clear carries the token of the first start event.
C4_BargeIn ==
    /\ OnlyLastUnsent
    /\ Len(RelayLog) = Len(SentIn)
    /\ \A i \in DOMAIN RelayLog :
          /\ RelayLog[i].event = (IF SentIn[i].kind = "uss" THEN "clear"
                                  ELSE "media")
          /\ RelayLog[i].event = "clear" =>
                RelayLog[i].streamSid = Head(start_sids)

\* a clear was written and the media of a later binary message follows it
C4_Witness ==
    \E i, j \in DOMAIN RelayLog :
        i < j /\ RelayLog[i].event = "clear" /\ RelayLog[j].event = "media"

\* C5: when teardown read the shutdown flag as set, a farewell asset is
\* configured (and was not found unreadable), a start event delivered a
\* token and the telephony peer has not closed, then by the time close is
\* invoked the farewell frames and after them exactly one mark were written
\* to the telephony socket.
C5_FarewellOnShutdown ==
    (CloseInvoked /\ stop_read /\ GOODBYE_ULAW_PATH /\ start_sids # <<>>
        /\ ~twilio_peer_closed /\ (gb_file.read => gb_file.ok)) =>
        LET g == GoodbyeLog
        IN  /\ Len(g) >= 1
            /\ g[Len(g)].event = "mark"
            /\ \A i \in 1..(Len(g) - 1) : g[i].event = "media"
            /\ Concat([i \in 1..(Len(g) - 1) |-> b64decode(g[i].payload).bytes])
                 = goodbye_data(gb_file)
            /\ twilio_out[Len(twilio_out)].event = "close"

\* C6: every media, clear and mark event written to the telephony socket
\* carries the token of the first start event of the session.
C6_TokenConsistency ==
    \A i \in DOMAIN twilio_out :
        twilio_out[i].event \in {"media", "clear", "mark"} =>
            twilio_out[i].streamSid = Head(start_sids)

\* C7: the binary messages written to the agent socket are the first frames
\* put on the queue, in queue order and each once, and their concatenation
\* is a prefix of the inbound audio bytes.
C7_TelephonyToAgentOrder ==
    /\ IsPrefix(BinFrames, enqueued)
    /\ IsPrefix(Concat(BinFrames), inbytes)

\* two frames of different content were written to the agent socket
C7_Witness == Len(BinFrames) >= 2 /\ BinFrames[1] # BinFrames[2]

\* C8: the media events sts_receiver wrote are, in order, one per binary
\* message it consumed, each with the base64 text of exactly that message
\* and the token of the first start event; none is missing unless its send
\* found the telephony socket closed, which ended the task.
C8_AgentToTelephonyOrder ==
    LET media == SelectSeq(RelayLog, LAMBDA e : e.event = "media")
        bins  == SelectSeq(SentIn, LAMBDA e : e.kind = "bin")
    IN  /\ OnlyLastUnsent
        /\ Len(media) = Len(bins)
        /\ \A i \in DOMAIN media :
              /\ b64decode(media[i].payload) = [ok |-> TRUE, bytes |-> bins[i].data]
              /\ media[i].payload = b64encode(bins[i].data)
              /\ media[i].streamSid = Head(start_sids)

\* two binary messages of different content were relayed
C8_Witness ==
    LET media == SelectSeq(RelayLog, LAMBDA e : e.event = "media")
    IN  Len(media) >= 2 /\ media[1].payload # media[2].payload

\* C9: in a dispatched request, every invocation (an object with id, name
\* and an arguments text that is valid JSON) whose name is not registered
\* got the response at its position with its id and name and the content
\* {"error": "Unknown function: <name>"}, and no registry function was
\* invoked for it.
UnknownContent(name) == "{\"error\": \"Unknown function: " \o name \o "\"}"
C9_UnknownFunction ==
    (disp = "returned" /\ functions.shape = "list") =>
        \A i \in DOMAIN functions.items :
            LET e == functions.items[i]
            IN  (/\ WellFormedEntry(e)
                 /\ json_loads_arguments(DictGet(e.arguments, ArgsEmpty)).ok
                 /\ e.name \notin FUNCTION_MAP) =>
                   /\ i <= Len(resp)
                   /\ resp[i] = [type |-> "FunctionCallResponse", id |-> e.id,
                                 name |-> e.name,
                                 content |-> UnknownContent(e.name)]
                   /\ \A k \in DOMAIN fn_calls : fn_calls[k][1] # i

\* C10: no failure while a FunctionCallRequest is handled leaves the
\* dispatcher as an exception or ends sts_receiver.
C10_DispatchContained ==
    /\ disp # "raised"
    /\ ~(rpc = "dispatch" /\ task["receiver"] = "exc")

\* the messages C11 calls malformed: on the telephony socket a text that is
\* not JSON, a JSON value that is not an object, a start event without a
\* token, a media event without a payload or with one that does not decode;
\* on the agent socket a text that is not JSON or not an object
MalformedTwilio ==
    { m \in TwilioMsgs :
        \/ ~m.json
        \/ ~m.obj
        \/ m.event = "start" /\ m.sid = Absent
        \/ m.event = "media" /\ m.track = "inbound"
              /\ (m.payload = <<>> \/ ~b64decode(m.payload).ok) }
MalformedSts == { m \in StsMsgs : m.kind = "text" /\ (~m.json \/ ~m.obj) }

\* nothing but the count of delivered messages changes
SkipsMessage ==
    UNCHANGED <<hvars, gvars, kvars, sockvars, twilio_out, sts_out, ivars,
                audio_queue, streamsid_queue, rvars, dvars>>

\* C11: a step in which twilio_receiver or sts_receiver consumes a malformed
\* message writes nothing to either socket, changes no session state and
\* leaves the receiving task running.
C11_MalformedSkipped ==
    [][ /\ \A m \in MalformedTwilio : twilio_receiver(m) => SkipsMessage
        /\ \A m \in MalformedSts : sts_receiver(m) => SkipsMessage ]_vars

\* C12: when a task has raised an exception that is neither connection-closed
\* nor a cancellation, then from the moment the wait of the handler has
\* returned every task that had not ended is cancelled, the exception the
\* handler carries is that of a task that raised, close has been invoked on
\* the telephony socket by the time the finally block is left, and the
\* handler ends by raising that exception.
C12_TaskRaised == \E t \in Tasks : task[t] = "exc"
C12_FatalPropagates ==
    (C12_TaskRaised /\ hpc \in {"goodbye", "closing", "exit", "done"}) =>
        /\ \A t \in Tasks : task[t] \in {"cancelling", "cancelled"} \/ Done(t)
        /\ \E t \in Tasks : task[t] = "exc" /\ task_exc[t] = pending
        /\ pending # ConnectionClosed
        /\ hpc \in {"exit", "done"} => CloseInvoked
        /\ hpc = "done" => hresult = "raised"

\* Media Ingest raised on an undecodable payload, both siblings were
\* cancelled, close was invoked and the handler raised that error
C12_Witness ==
    /\ hpc = "done" /\ hresult = "raised" /\ pending = "binascii.Error"
    /\ task["ingest"] = "exc" /\ CloseInvoked
    /\ task["sender"] = "cancelled" /\ task["receiver"] = "cancelled"

\* C13: when close has been invoked on the telephony socket, each of the
\* three tasks has terminated: it returned, raised, or its cancellation
\* has completed.
C13_CancellationsAwaited == CloseInvoked => \A t \in Tasks : Done(t)

\* C14: once a write of sts_sender was rejected by the closed agent socket
\* and the task has ended (it writes nothing further), the supervisor
\* eventually cancels the other tasks and ends the session: close is
\* invoked on the telephony socket and no task is left running.
C14_WriteRejected == hpc = "active" /\ task["sender"] = "ok"
C14_SessionEnded == CloseInvoked /\ \A t \in Tasks : task[t] # "run"
C14_SenderFailureSurfaces == C14_WriteRejected ~> C14_SessionEnded

\* C15: a connection-closed error never leaves twilio_handler as an error:
\* no task ends with one as its outcome, a handler that ended by raising
\* raised something else, and a handler whose body was left by a
\* connection-closed error (the send of the configuration message) returned
\* normally; a farewell or close on a closed telephony socket raises nothing.
C15_ConnectionClosedContained ==
    /\ \A t \in Tasks : task_exc[t] # ConnectionClosed
    /\ hresult = "raised" => pending \notin {"", ConnectionClosed}
    /\ (hpc = "done" /\ pending \in {"", ConnectionClosed}) => hresult = "returned"

\* all three tasks ended on a closed socket (the write of sts_sender was
\* rejected) and the handler returned
C15_Witness ==
    /\ hpc = "done" /\ hresult = "returned"
    /\ twilio_peer_closed /\ n_msgs = 2
    /\ \A t \in Tasks : task[t] = "ok"

\* the request was upgraded and handed to twilio_handler
Upgraded == hpc \notin {"request", "responded"}

\* C16: once a request is routed, the path "/" was answered 200 OK without
\* an upgrade, the configured telephony path was upgraded, and every other
\* path was answered 404 without an upgrade.
C16_Routing ==
    hpc # "request" =>
        /\ req_path = "/" => http_response = "200 OK" /\ ~Upgraded
        /\ req_path = WS_PATH => http_response = None /\ Upgraded
        /\ req_path \notin {"/", WS_PATH} =>
              http_response = "404 Not Found" /\ ~Upgraded

\* C16 as amended: the telephony path is upgraded only when it is not "/";
\* the path "/" is always the health check, also when it is the configured
\* telephony path, and then no path is upgraded.
C16_RoutingAmended ==
    hpc # "request" =>
        /\ req_path = "/" => http_response = "200 OK" /\ ~Upgraded
        /\ (req_path = WS_PATH /\ WS_PATH # "/") =>
              http_response = None /\ Upgraded
        /\ req_path \notin {"/", WS_PATH} =>
              http_response = "404 Not Found" /\ ~Upgraded
        /\ WS_PATH = "/" => ~Upgraded

\* the telephony path is configured as "/" and a request for it was
\* answered as a health check
C16_Witness ==
    WS_PATH = "/" /\ req_path = "/" /\ hpc = "responded"
        /\ http_response = "200 OK"

\* C17: the stream token is published at most once per session: the tokens
\* put on the handoff number at most one, and the handoff never holds two.
C17_TokenPublishedOnce == Len(start_sids) <= 1 /\ Len(streamsid_queue) <= 1

\* the invocation that was being processed when the k-th response of the
\* current request was produced: the k-th entry of the list, or none when
\* the loop never bound one
ProcessedAt(k) ==
    IF functions.shape = "list" /\ k <= Len(functions.items)
    THEN functions.items[k] ELSE NotAnObject

\* C18: every FunctionCallResponse sent for the current request, fallback
\* included, carries the id and the name of the invocation processed when
\* it was produced, and "unknown" for an id or name that invocation (or a
\* request without one) does not supply.
C18_ResponseIdentity ==
    \A k \in DOMAIN resp :
        /\ resp[k].id = DictGet(ProcessedAt(k).id, "unknown")
        /\ resp[k].name = DictGet(ProcessedAt(k).name, "unknown")

\* the `functions` value is absent, null, or holds an entry that is not an
\* object
MalformedList ==
    \/ functions.shape \in {"absent", "null"}
    \/ \E i \in DOMAIN functions.items : ~functions.items[i].obj

\* C19: when the dispatcher has returned from a request whose `functions`
\* value is malformed, at least one FunctionCallResponse was sent for it,
\* the last with the id and name of the entry it was produced for or
\* "unknown" for both.
C19_MalformedListAnswered ==
    (disp = "returned" /\ MalformedList) =>
        /\ Len(resp) >= 1
        /\ resp[Len(resp)].id = DictGet(ProcessedAt(Len(resp)).id, "unknown")
        /\ resp[Len(resp)].name = DictGet(ProcessedAt(Len(resp)).name, "unknown")

\* the arguments every invocation falls back to: the empty object
NoArguments == [ok |-> TRUE, dict |-> TRUE, val |-> <<>>]

\* the `arguments` text is absent, empty, or not parseable as JSON
ArgumentsDefaulted(e) ==
    \/ e.arguments \in {Absent, None, ""}
    \/ ~json_loads_arguments(e.arguments).ok

\* C20: in a dispatched request, an invocation whose arguments text is
\* absent, empty or not JSON was answered with the result of calling the
\* named function with no arguments (when that call returns), and a
\* registered function was invoked for it.
C20_ArgumentDefaulting ==
    (disp = "returned" /\ functions.shape = "list") =>
        \A i \in DOMAIN resp :
            LET e == functions.items[i]
                func_name == DictGet(e.name, None)
                r == execute_function_call(func_name, NoArguments)
            IN  (e.obj /\ ArgumentsDefaulted(e) /\ ~r.raised) =>
                  /\ resp[i].content = json_dumps(r.result)
                  /\ func_name \in FUNCTION_MAP =>
                        \E k \in DOMAIN fn_calls : fn_calls[k] = <<i, func_name>>

\* C21: dispatch is serialized: while the dispatcher of a request is running
\* the Agent Event Receiver takes no further agent message (it does not
\* stand in its loop, no request is counted, no message is relayed), it
\* writes nothing to the telephony socket, and the request being answered
\* stays the same one.
C21_DispatchSerialized ==
    [][disp = "running" =>
         /\ rpc # "loop"
         /\ n_req' = n_req /\ sts_in' = sts_in
         /\ RelayLog' = RelayLog
         /\ functions' = functions]_vars

\* a dispatcher that has sent one response and has another invocation to
\* process, while the session could still take a message
C21_Witness ==
    /\ disp = "running" /\ Running("receiver") /\ sts_open /\ twilio_open
    /\ n_msgs < MaxMsgs /\ Len(resp) = 1
    /\ functions.shape = "list" /\ Len(functions.items) = 2

\* C22: token gating: as long as no start event with a non-empty stream
\* token has been received, the Agent Event Receiver has written nothing to
\* the telephony socket, has relayed no agent message and has dispatched no
\* function call.
C22_TokenGating ==
    start_sids = <<>> =>
        /\ RelayLog = <<>> /\ sts_in = <<>>
        /\ n_req = 0 /\ disp = "none" /\ resp = <<>> /\ fn_calls = <<>>

\* an active session that has forwarded caller audio to the agent while the
\* receiver is still waiting for the token
C22_Witness ==
    /\ start_sids = <<>> /\ hpc = "active" /\ Running("receiver")
    /\ sts_open /\ twilio_open /\ n_msgs = 2 /\ BinFrames # <<>>

\* C23: cancel before close: once the farewell playout has started or close
\* has been invoked on the telephony socket, no task is left running
\* without a cancellation request, and in the telephony log no event
\* written by the Agent Event Receiver follows a farewell event or the close.
C23_CancelBeforeClose ==
    /\ (hpc \in {"goodbye", "closing", "exit"} \/ GoodbyeLog # <<>>
            \/ CloseInvoked) =>
           \A t \in Tasks : task[t] # "run"
    /\ \A i, j \in DOMAIN twilio_out :
           (i < j /\ twilio_out[i].by \in {"try_send_goodbye", "twilio_handler"})
               => twilio_out[j].by # "sts_receiver"

\* a receiver that was in its relay loop, was cancelled, and the farewell and
\* the close that followed
C23_Witness ==
    /\ rpc = "loop" /\ task["receiver"] = "cancelled"
    /\ GoodbyeLog # <<>> /\ CloseInvoked

\* the farewell media envelopes, and the byte length of the k-th payload
GoodbyeMedia == SelectSeq(GoodbyeLog, LAMBDA e : e.event = "media")
GoodbyeBytes(k) == Len(b64decode(GoodbyeMedia[k].payload).bytes)

RECURSIVE PlayedUpTo(_)
PlayedUpTo(k) ==
    IF k = 0 THEN <<>>
    ELSE PlayedUpTo(k - 1) \o b64decode(GoodbyeMedia[k].payload).bytes
GoodbyePlayed == PlayedUpTo(Len(GoodbyeMedia))

\* the asset without its container header: a .wav file longer than its
\* header loses the header, any other file is audio as it is
StrippedAsset ==
    LET n == Len(gb_file.bytes)
    IN  IF gb_file.wav /\ n > HEADER_BYTES
        THEN [i \in 1..(n - HEADER_BYTES) |-> gb_file.bytes[i + HEADER_BYTES]]
        ELSE gb_file.bytes

GoodbyeMarked ==
    GoodbyeLog # <<>> /\ GoodbyeLog[Len(GoodbyeLog)].event = "mark"

\* C25: farewell ordering: the farewell events are consecutive in the
\* telephony log and carry the token read at teardown; a mark is the last
\* farewell event and is named server_goodbye_done; the media payloads sent
\* so far concatenate to a prefix of the stripped asset, and to the whole of
\* it once the mark is sent; and a playout whose asset was read and whose
\* sends all found the socket open has sent the mark.
C25_FarewellOrdering ==
    /\ \A k \in DOMAIN GoodbyeLog :
          /\ GoodbyeLog[k].streamSid = gb_sid
          /\ GoodbyeLog[k].event = "mark" =>
                k = Len(GoodbyeLog) /\ GoodbyeLog[k].name = "server_goodbye_done"
    /\ \A i, j, k \in DOMAIN twilio_out :
          (i < j /\ j < k /\ twilio_out[i].by = "try_send_goodbye"
                 /\ twilio_out[k].by = "try_send_goodbye")
              => twilio_out[j].by = "try_send_goodbye"
    /\ IsPrefix(GoodbyePlayed, StrippedAsset)
    /\ GoodbyeMarked => GoodbyePlayed = StrippedAsset
    /\ (hpc = "closing" /\ twilio_open /\ gb_file.read /\ gb_file.ok)
          => GoodbyeMarked

\* a .wav asset played without its header, up to the mark
C25_Witness ==
    /\ GoodbyeMarked /\ gb_file.wav /\ Len(GoodbyeMedia) >= 2
    /\ GoodbyePlayed # gb_file.bytes

\* C26: session end state: when twilio_handler has terminated, close has
\* been invoked on the telephony socket and the agent socket is not open.
C26_SessionEndState == hpc = "done" => (CloseInvoked /\ ~sts_open)

\* the positions of the agent-socket log that hold a configuration message
ConfigSent == {i \in DOMAIN sts_out : sts_out[i].kind = "config"}

\* C27: session configuration first: the first message written to the
\* agent socket is the session configuration, it is written at most once
\* (so every audio frame and every FunctionCallResponse comes after it), and
\* the three tasks exist only once it has been written.
C27_ConfigurationFirst ==
    /\ sts_out # <<>> => sts_out[1].kind = "config"
    /\ Cardinality(ConfigSent) <= 1
    /\ (\E t \in Tasks : task[t] # "none") => ConfigSent = {1}
    /\ hpc \in {"active", "goodbye", "closing", "exit"} => ConfigSent = {1}

\* a session that has sent the configuration, an audio frame and a
\* FunctionCallResponse to the agent
C27_Witness ==
    /\ Len(sts_out) >= 3
    /\ \E i \in DOMAIN sts_out : sts_out[i].kind = "bin"
    /\ \E i \in DOMAIN sts_out : sts_out[i].kind = "text"

\* C28: the shutdown flag has no effect on an ACTIVE session: the flag is
\* read only in teardown, and while the session is active its telephony
\* socket is open unless the telephony peer closed it, so the tasks keep
\* relaying.
C28_ShutdownFlagFrame ==
    /\ hpc \in {"request", "responded", "connecting", "config", "active"}
          => ~stop_read
    /\ (hpc = "active" /\ ~twilio_open) => twilio_peer_closed

\* the media events the filter rejects: another track, or no payload
FilteredMedia ==
    { m \in TwilioMsgs :
        m.obj /\ m.event = "media" /\ (m.track # "inbound" \/ m.payload = <<>>) }

\* the media events the filter accepts
AcceptedMedia ==
    { m \in TwilioMsgs :
        m.obj /\ m.event = "media" /\ m.track = "inbound" /\ m.payload # <<>> }

\* C30: track filter: a step in which twilio_receiver consumes a media event
\* of another track or without payload leaves the byte accumulator and the
\* frame queue unchanged, and the accumulator and the frames enqueued change
\* only in a step that consumes an inbound media event with a payload.
C30_TrackFilter ==
    [][ /\ \A m \in FilteredMedia :
              twilio_receiver(m) =>
                  UNCHANGED <<inbuffer, inbytes, enqueued, audio_queue>>
        /\ (inbuffer' # inbuffer \/ enqueued' # enqueued) =>
              \E m \in AcceptedMedia : twilio_receiver(m) ]_vars

\* three telephony messages consumed of which exactly one added a byte to
\* the accumulator
C30_Witness ==
    /\ n_msgs = 3 /\ Running("ingest") /\ hpc = "active"
    /\ inbuffer = <<77>> /\ enqueued = <<>> /\ start_sids = <<>>
    /\ sts_in = <<>> /\ n_req = 0

\* C29: session isolation, for two concurrent sessions whose peers send
\* data tagged with their session: the frames written to a session's agent socket are, in order, bytes
\* received on that session's telephony socket; every event written to a
\* session's telephony socket answers the agent message of that session at
\* the same position and carries the token of that session's start event;
\* and the token a receiver holds is one its own session received.
C29_SessionIsolation ==
    \A s \in Sessions :
         LET me == sessions[s]
         IN  /\ IsPrefix(Concat(me.sts_out), me.inbytes)
             /\ me.rpc = "loop" =>
                   me.start_sids # <<>> /\ me.streamsid = me.start_sids[1]
             /\ Len(me.twilio_out) = Len(me.sts_in)
             /\ \A i \in DOMAIN me.twilio_out :
                   LET e == me.twilio_out[i]
                   IN  /\ e.streamSid = SessionToken(s)
                       /\ e.event = IF me.sts_in[i].kind = "bin"
                                    THEN "media" ELSE "clear"
                       /\ b64decode(e.payload).bytes = me.sts_in[i].data

\* both sessions have forwarded a frame to their agent and relayed agent
\* audio to their caller
C29_Witness ==
    \A s \in Sessions :
        /\ sessions[s].sts_out # <<>>
        /\ \E i \in DOMAIN sessions[s].twilio_out :
               sessions[s].twilio_out[i].event = "media"

\* the telephony stop event
StopMsg == TwMsg(TRUE, TRUE, "stop", Absent, "", <<>>)

\* C31: stop event: the step in which twilio_receiver consumes a stop event
\* ends the task normally, enqueues nothing, leaves the bytes of the
\* accumulator where they are, and neither closes the telephony socket nor
\* sends on it; once the task has ended, no later step touches the
\* accumulator, the frames enqueued or the tokens published.
C31_StopEndsIngest ==
    [][ /\ twilio_receiver(StopMsg) =>
              /\ task'["ingest"] = "ok"
              /\ UNCHANGED <<inbuffer, inbytes, enqueued, audio_queue,
                             start_sids, streamsid_queue>>
              /\ UNCHANGED <<twilio_open, twilio_out>>
        /\ Done("ingest") =>
              /\ task'["ingest"] = task["ingest"]
              /\ UNCHANGED <<inbuffer, inbytes, enqueued, start_sids>> ]_vars

\* Media Ingest ended on a stop event with a byte left in the accumulator,
\* the telephony socket open and telephony messages still to come
C31_Witness ==
    /\ task["ingest"] = "ok" /\ twilio_open /\ hpc = "active"
    /\ inbuffer # <<>> /\ n_msgs < MaxMsgs

\* C32: the shutdown flag is monotone: it is unset at process start, only a
\* termination signal changes it, and once set it stays set.
C32_StopEventMonotone ==
    /\ ~STOP_EVENT
    /\ [][ /\ STOP_EVENT => STOP_EVENT'
           /\ STOP_EVENT' # STOP_EVENT => stop_signal ]_vars

\* the flag was set, a session read it in teardown and ended, and the flag
\* is still set
C32_Witness == STOP_EVENT /\ stop_read /\ hpc = "done" /\ gb_i > 0

\* C33: accumulator invariant: after every message handled the accumulator
\* holds fewer than BUFFER_SIZE bytes, and the bytes of the frames enqueued
\* plus the bytes of the accumulator are as many as the bytes decoded from
\* inbound media.
C33_AccumulatorInvariant ==
    /\ Len(inbuffer) < BUFFER_SIZE
    /\ Len(Concat(enqueued)) + Len(inbuffer) = Len(inbytes)

\* two frames enqueued and a remainder in the accumulator
C33_Witness ==
    /\ Len(enqueued) >= 2 /\ inbuffer # <<>>
    /\ Len(inbytes) > 2 * BUFFER_SIZE

\* C34: farewell failures are contained: an unreadable asset sends nothing
\* and leads on to the close; a send that fails during playout sends
\* nothing more, leaves the exception teardown re-raises unchanged and leads
\* on to the close; after playout has ended no farewell frame and no mark is
\* sent; and the only step that leaves "closing" invokes close.
C34_FarewellFailuresContained ==
    [][ /\ (~gb_file.read /\ gb_file'.read /\ ~gb_file'.ok) =>
              /\ hpc' = "closing"
              /\ GoodbyeLog' = <<>>
        /\ (hpc = "goodbye" /\ ~twilio_open /\ hpc' # hpc) =>
              /\ hpc' = "closing"
              /\ UNCHANGED <<twilio_out, pending, task>>
        /\ (gb_file.read /\ hpc # "goodbye") => GoodbyeLog' = GoodbyeLog
        /\ (hpc = "closing" /\ hpc' # hpc) =>
              /\ hpc' = "exit"
              /\ twilio_out' = Append(twilio_out, Close) ]_vars

\* a farewell frame was sent, a later send failed, no mark was sent and
\* close was invoked all the same
C34_Witness ==
    /\ gb_file.read /\ gb_file.ok /\ GoodbyeMedia # <<>> /\ ~GoodbyeMarked
    /\ CloseInvoked

\* the clock time of a returned slot in the offset it is labelled with
LocalStart(slot) == slot.start + slot.off * HOUR
LocalEnd(slot) == slot.end + slot.off * HOUR

\* a slot lies within 9:00-17:00 of one weekday of its local clock
InBusinessHours(local_start, local_end) ==
    /\ weekday(date(local_start)) < 5
    /\ At(date(local_start), 9, 0, 0) <= local_start
    /\ local_end <= At(date(local_start), 17, 0, 0)

C36_SlotsWithinHorizon ==
    cal.fn = "get_next_available_slots" =>
        \A i \in DOMAIN cal.slots : cal.slots[i].end <= cal.horizon_utc

\* C37: the search for alternatives of check_slot_and_alternatives ends:
\* it is never still running after MaxSearchDays day iterations.
C37_SearchEnds ==
    (cal.fn = "check_slot_and_alternatives" /\ cal.pc = "alternatives")
        => cal.iter < MaxSearchDays

\* C38: check_slot_and_alternatives reports available: true only for a
\* proposed slot that is not in the past, lies within 9:00-17:00 of a
\* weekday of its local clock (start >= 9:00, start + slot_minutes <=
\* 17:00) and overlaps no reported busy interval, which is the rule the
\* alternatives are generated by.
C38_AcceptanceRule ==
    (cal.fn = "check_slot_and_alternatives" /\ cal.available) =>
        LET end_utc == cal.start_utc + cal.slot_minutes * MINUTE
        IN  /\ cal.start_utc >= cal.now_utc
            /\ InBusinessHours(cal.start_utc + cal.start_off * HOUR,
                               end_utc + cal.start_off * HOUR)
            /\ ~conflict(cal.busy_utc, cal.start_utc, end_utc)

====
